---- MODULE Spec2Model ----
(***************************************************************************)
(* Employee API (FastAPI + MongoDB), src/main.py.                          *)
(*                                                                         *)
(* The state is the "employees" collection of the MongoDB database (its    *)
(* documents in natural order, its validator and its unique index), the    *)
(* position of every request handler that is between its two storage       *)
(* round-trips, and the request and response of the handler step that ran  *)
(* last.  Every "await" of a handler is one atomic storage operation; the  *)
(* event loop may run any other handler between two of them.               *)
(*                                                                         *)
(* Conventions.  An optional value (Python None / JSON null) is a tuple of *)
(* length 0 or 1: <<>> is None, <<v>> is the value v.  A JSON request body *)
(* is a function from the keys it carries to optional values.  A string    *)
(* that the code inspects character by character (joining_date) is the     *)
(* sequence of its characters.  A salary is a double; the model uses       *)
(* integer-valued doubles and exact rationals for their means.             *)
(***************************************************************************)
EXTENDS Integers, Sequences, FiniteSets, TLC

VARIABLES
    started,      \* the startup event has run; requests are served
    collExists,   \* "employees" in db.list_collection_names()
    validator,    \* the collection carries the $jsonSchema validator
    uniqueIndex,  \* the unique index on employee_id exists
    employees,    \* the documents of the collection, in natural order
    nextOid,      \* the next ObjectId the driver generates
    pc,           \* per handler slot: where it is between its awaits
    created,      \* employee_id -> the body of the create that stored it,
                  \* until an update or a delete touches that employee_id
    last          \* the handler step that ran last: request and response

vars == <<started, collExists, validator, uniqueIndex, employees, nextOid,
          pc, created, last>>

----------------------------------------------------------------------------
(* Bounds of the model *)

\* ObjectIds the driver may hand out in one run (successful inserts).
MaxOid == 2
\* Handlers that may be between their two storage round-trips at once.
NumProcs == 1
Procs == 1..NumProcs

----------------------------------------------------------------------------
(* Values requests are drawn from *)

EmployeeIds == {"E1", "E2"}

D2020 == <<"2", "0", "2", "0", "-", "0", "1", "-", "1", "5">>
D2021 == <<"2", "0", "2", "1", "-", "0", "6", "-", "3", "0">>
\* ten characters, but day-month-year: does not match the pattern
DBad  == <<"3", "0", "-", "0", "6", "-", "2", "0", "2", "1">>

NoSkills == <<>>
Go == <<"go">>

Some(v) == <<v>>
None == <<>>

\* POST /employees bodies (a body is the function from its keys to values):
\* one without skills, two with skills (one per department, the second with
\* the first body's date), one with a negative salary, one with an ill-shaped
\* date, one without a name.
CreateBodies ==
    { [employee_id |-> Some("E1"), name |-> Some("Ann"), department |-> Some("Eng"),
       salary |-> Some(100), joining_date |-> Some(D2020)],
      [employee_id |-> Some("E2"), name |-> Some("Bob"), department |-> Some("Eng"),
       salary |-> Some(200), joining_date |-> Some(D2021), skills |-> Some(Go)],
      [employee_id |-> Some("E2"), name |-> Some("Bob"), department |-> Some("Ops"),
       salary |-> Some(200), joining_date |-> Some(D2020), skills |-> Some(Go)],
      [employee_id |-> Some("E1"), name |-> Some("Ann"), department |-> Some("Eng"),
       salary |-> Some(0 - 1), joining_date |-> Some(D2020), skills |-> Some(NoSkills)],
      [employee_id |-> Some("E2"), name |-> Some("Ann"), department |-> Some("Ops"),
       salary |-> Some(100), joining_date |-> Some(DBad), skills |-> Some(NoSkills)],
      [employee_id |-> Some("E2"), department |-> Some("Ops"),
       salary |-> Some(100), joining_date |-> Some(D2020)] }

\* The body {} of a PUT that supplies nothing.
EmptyBody == [k \in {} |-> None]

\* PUT /employees/{employee_id} bodies: nothing, a null, a negative salary,
\* an ill-shaped date, and a name together with keys that are no field of
\* EmployeeUpdate.
UpdateBodies ==
    { EmptyBody,
      [skills |-> None],
      [salary |-> Some(0 - 1)],
      [joining_date |-> Some(DBad)],
      [name |-> Some("Bob"), employee_id |-> Some("E2"), id |-> Some("x")] }

\* ?department= values of GET /employees: absent, empty, or a department.
DepartmentParams == {None, Some(""), Some("Eng")}

\* <<?page=, ?page_size=>> values of GET /employees.
Pagings == {<<1, 2>>, <<2, 1>>, <<2, 2>>}

----------------------------------------------------------------------------
(* Validation layer: the pydantic models *)

MutableFields == {"name", "department", "salary", "joining_date", "skills"}
RequiredOnCreate == {"employee_id", "name", "department", "salary", "joining_date"}

\* body.get(k): the value of key k, None when the body has no such key.
Get(body, k) == IF k \in DOMAIN body THEN body[k] ELSE None

\* EmployeeUpdate had it declared employee_id as one more optional field:
\* the body's employee_id would reach the update set.
EmployeeUpdateWithId(body) ==
    [k \in MutableFields \cup {"employee_id"} |->
        IF k \in DOMAIN body THEN body[k]
        ELSE IF k = "skills" THEN Some(NoSkills) ELSE None]

\* EmployeeBase as EmployeeUpdate parses a body: every field Optional with
\* default None, except skills whose default is []; keys that are no field
\* of the model are ignored.  The result is emp.dict().
EmployeeUpdate(body) ==
    [k \in MutableFields |->
        IF k \in DOMAIN body THEN body[k]
        ELSE IF k = "skills" THEN Some(NoSkills) ELSE None]

\* EmployeeCreate: employee_id, name, department, salary and joining_date are
\* required (and not null); skills defaults to [].  None = rejected (422).
EmployeeCreate(body) ==
    IF \E k \in RequiredOnCreate : Get(body, k) = None
    THEN None
    ELSE Some([k \in RequiredOnCreate \cup {"skills"} |->
                 IF k = "skills" /\ Get(body, k) = None THEN Some(NoSkills)
                 ELSE body[k]])

\* jsonable_encoder(emp): the plain dict of the model's fields.
jsonable_encoder(emp) == [k \in DOMAIN emp |-> emp[k][1]]

----------------------------------------------------------------------------
(* Storage collaborator: the collection, its validator, its unique index *)

DigitChars == {"0", "1", "2", "3", "4", "5", "6", "7", "8", "9"}

\* "^[0-9]{4}-[0-9]{2}-[0-9]{2}$"
MatchesDatePattern(s) ==
    /\ Len(s) = 10
    /\ \A i \in {1, 2, 3, 4, 6, 7, 9, 10} : s[i] \in DigitChars
    /\ s[5] = "-"
    /\ s[8] = "-"

SchemaRequired ==
    {"employee_id", "name", "department", "salary", "joining_date", "skills"}

\* The $jsonSchema of startup_db: the required keys, salary minimum 0, the
\* joining_date pattern.  (The bsonType of every field is what the pydantic
\* models already produce.)
SchemaAccepts(doc) ==
    /\ SchemaRequired \subseteq DOMAIN doc
    /\ doc.salary >= 0
    /\ MatchesDatePattern(doc.joining_date)

\* The first position holding a document whose field k is v, 0 if none.
FirstIndex(coll, k, v) ==
    IF \E i \in 1..Len(coll) : coll[i][k] = v
    THEN CHOOSE i \in 1..Len(coll) :
            /\ coll[i][k] = v
            /\ \A j \in 1..(i - 1) : coll[j][k] # v
    ELSE 0

\* find_one with the filter left out: the first document, whatever e is.
FindFirst(coll, e) ==
    IF coll = <<>> THEN None ELSE Some(coll[1])

\* find_one({"employee_id": e}) / find_one({"_id": oid}): None when absent.
FindByEmployeeId(coll, e) ==
    LET i == FirstIndex(coll, "employee_id", e)
    IN IF i = 0 THEN None ELSE Some(coll[i])

FindById(coll, oid) ==
    LET i == FirstIndex(coll, "_id", oid)
    IN IF i = 0 THEN None ELSE Some(coll[i])

ObjectId(n) == [oid |-> n]

\* insert_one on a collection whose employee_id index is not unique.
InsertOutcomeNoIndex(coll, doc) ==
    IF validator /\ ~SchemaAccepts(doc) THEN "invalid" ELSE "ok"

\* insert_one(doc): the validator is applied first, then the unique index;
\* "invalid" is a WriteError, "duplicate" a DuplicateKeyError.
InsertOutcome(coll, doc) ==
    IF validator /\ ~SchemaAccepts(doc) THEN "invalid"
    ELSE IF uniqueIndex /\ \E i \in 1..Len(coll) : coll[i].employee_id = doc.employee_id
         THEN "duplicate"
         ELSE "ok"

InsertOne(coll, doc, oid) ==
    Append(coll, [k \in DOMAIN doc \cup {"_id"} |->
                    IF k = "_id" THEN oid ELSE doc[k]])

\* {"$set": update_data} applied to one document.
ApplySet(doc, update_data) ==
    [k \in DOMAIN doc \cup DOMAIN update_data |->
        IF k \in DOMAIN update_data THEN update_data[k] ELSE doc[k]]

\* update_one on a collection whose validator is not applied to updates.
UpdateOutcomeUnvalidated(coll, e, update_data) ==
    IF \E i \in 1..Len(coll) : coll[i].employee_id = e THEN "ok" ELSE "nomatch"

\* update_one({"employee_id": e}, {"$set": update_data}) on the first match:
\* "nomatch" (matched_count = 0), "invalid" (the validator rejects the
\* updated document), "duplicate" (the unique index does), or "ok".
UpdateOutcome(coll, e, update_data) ==
    LET i == FirstIndex(coll, "employee_id", e)
    IN IF i = 0 THEN "nomatch"
       ELSE LET new == ApplySet(coll[i], update_data)
            IN IF validator /\ ~SchemaAccepts(new) THEN "invalid"
               ELSE IF uniqueIndex /\ \E j \in 1..Len(coll) :
                          j # i /\ coll[j].employee_id = new.employee_id
                    THEN "duplicate"
                    ELSE "ok"

UpdateOne(coll, e, update_data) ==
    LET i == FirstIndex(coll, "employee_id", e)
    IN [coll EXCEPT ![i] = ApplySet(coll[i], update_data)]

\* delete_one with the filter left out: the first document goes.
DeleteFirst(coll, e) == IF coll = <<>> THEN coll ELSE Tail(coll)

\* delete_one({"employee_id": e}): the collection without the first match.
DeleteOne(coll, e) ==
    LET i == FirstIndex(coll, "employee_id", e)
    IN IF i = 0 THEN coll
       ELSE SubSeq(coll, 1, i - 1) \o SubSeq(coll, i + 1, Len(coll))

----------------------------------------------------------------------------
(* Document mapper *)

\* str(ObjectId): the hexadecimal text of the identifier.
Str(oid) == <<"hex", oid.oid>>

\* clean_doc(doc) for a document: "_id" replaced by "id" = str(_id).
clean_doc(doc) ==
    IF "_id" \in DOMAIN doc
    THEN [k \in (DOMAIN doc \ {"_id"}) \cup {"id"} |->
            IF k = "id" THEN Str(doc._id) ELSE doc[k]]
    ELSE doc

----------------------------------------------------------------------------
(* Responses *)

NoBody == <<>>

Response(code, detail, body) == [status |-> code, detail |-> detail, body |-> body]

\* raise HTTPException(status_code, detail)
HTTPException(code, detail) == Response(code, Some(detail), NoBody)

\* An exception no handler catches: 500 "Internal Server Error", no detail.
Unhandled == Response(500, None, NoBody)

\* What `last` records of a handler step: the operation; whether the step
\* began with the request ("request") or is the handler's re-fetch ("fetch");
\* the request's employee_id, body and query; and the response, NoResponse
\* while the handler has not returned.
Step(op, step, e, body, query, resp) ==
    [op |-> op, step |-> step, employee_id |-> e, body |-> body,
     query |-> query, resp |-> resp]

NoQuery == [department |-> None, page |-> 0, page_size |-> 0]
NoResponse == Response(0, None, NoBody)

Idle == [at |-> "idle", oid |-> 0, eid |-> ""]

\* The slot a handler takes while it is between its two round-trips: the
\* lowest one that is idle.
FreeSlot(p) == pc[p] = Idle /\ \A q \in 1..(p - 1) : pc[q] # Idle

NoCreated == [e \in EmployeeIds |-> None]

----------------------------------------------------------------------------
(* The state after construction: the process is up, the startup event has  *)
(* not run; the database is fresh or was bootstrapped by an earlier run.   *)

Init ==
    /\ started = FALSE
    /\ collExists \in BOOLEAN
    /\ validator = collExists
    /\ uniqueIndex = collExists
    /\ employees = <<>>
    /\ nextOid = 1
    /\ pc = [p \in Procs |-> Idle]
    /\ created = NoCreated
    /\ last = Step("none", "none", "", EmptyBody, NoQuery, NoResponse)

\* startup_db
Startup ==
    /\ ~started
    /\ started' = TRUE
    /\ collExists' = TRUE
    /\ validator' = IF collExists THEN validator ELSE TRUE
    /\ uniqueIndex' = TRUE
    /\ last' = Step("startup", "startup", "", EmptyBody, NoQuery, NoResponse)
    /\ UNCHANGED <<employees, nextOid, pc, created>>

----------------------------------------------------------------------------
(* Request handlers *)

\* return clean_doc(found): clean_doc(None) raises TypeError in dict(None),
\* which nothing catches.
ReturnCleanDoc(found, code) ==
    IF found = None THEN Unhandled
    ELSE Response(code, None, clean_doc(found[1]))

\* {k: v for k, v in emp.dict().items() if v is not None}
UpdateData(emp) ==
    [k \in {f \in DOMAIN emp : emp[f] # None} |-> emp[k][1]]

\* create_employee up to and including `await employees.insert_one(doc)`.
CreateEmployee(p, body) ==
    /\ started
    /\ LET emp == EmployeeCreate(body)
           e == IF Get(body, "employee_id") = None THEN "" ELSE body.employee_id[1]
       IN IF emp = None
          THEN /\ last' = Step("create", "request", e, body, NoQuery,
                               HTTPException(422, "field required"))
               /\ UNCHANGED <<employees, nextOid, pc, created>>
          ELSE LET doc == jsonable_encoder(emp[1])
                   out == InsertOutcome(employees, doc)
               IN IF out = "ok"
                  THEN /\ nextOid <= MaxOid
                       /\ FreeSlot(p)
                       /\ employees' = InsertOne(employees, doc, ObjectId(nextOid))
                       /\ nextOid' = nextOid + 1
                       /\ pc' = [pc EXCEPT ![p] =
                                   [at |-> "create_fetch", oid |-> nextOid, eid |-> e]]
                       /\ created' = [created EXCEPT ![e] = Some(body)]
                       /\ last' = Step("create", "request", e, body, NoQuery, NoResponse)
                  ELSE /\ last' = Step("create", "request", e, body, NoQuery,
                                       IF out = "duplicate"
                                       THEN HTTPException(400, "employee_id must be unique")
                                       ELSE Unhandled)
                       /\ UNCHANGED <<employees, nextOid, pc, created>>
    /\ UNCHANGED <<started, collExists, validator, uniqueIndex>>

\* create_employee from `await employees.find_one({"_id": ...})` to its return.
CreateFetch(p) ==
    /\ pc[p].at = "create_fetch"
    /\ LET inserted == FindById(employees, ObjectId(pc[p].oid))
       IN last' = Step("create", "fetch", pc[p].eid, EmptyBody, NoQuery,
                       ReturnCleanDoc(inserted, 201))
    /\ pc' = [pc EXCEPT ![p] = Idle]
    /\ UNCHANGED <<started, collExists, validator, uniqueIndex, employees,
                   nextOid, created>>

\* update_employee up to and including `await employees.update_one(...)`.
UpdateEmployee(p, e, body) ==
    /\ started
    /\ LET update_data == UpdateData(EmployeeUpdate(body))
           out == UpdateOutcome(employees, e, update_data)
       IN IF DOMAIN update_data = {}
          THEN /\ last' = Step("update", "request", e, body, NoQuery,
                               HTTPException(400, "No fields provided for update"))
               /\ UNCHANGED <<employees, pc, created>>
          ELSE IF out = "ok"
          THEN /\ FreeSlot(p)
               /\ employees' = UpdateOne(employees, e, update_data)
               /\ pc' = [pc EXCEPT ![p] =
                           [at |-> "update_fetch", oid |-> 0, eid |-> e]]
               /\ created' = [created EXCEPT ![e] = None]
               /\ last' = Step("update", "request", e, body, NoQuery, NoResponse)
          ELSE /\ last' = Step("update", "request", e, body, NoQuery,
                               IF out = "nomatch"
                               THEN HTTPException(404, "Employee not found")
                               ELSE Unhandled)
               /\ UNCHANGED <<employees, pc, created>>
    /\ UNCHANGED <<started, collExists, validator, uniqueIndex, nextOid>>

\* update_employee from `await employees.find_one({"employee_id": ...})` on.
UpdateFetch(p) ==
    /\ pc[p].at = "update_fetch"
    /\ LET updated == FindByEmployeeId(employees, pc[p].eid)
       IN last' = Step("update", "fetch", pc[p].eid, EmptyBody, NoQuery,
                       ReturnCleanDoc(updated, 200))
    /\ pc' = [pc EXCEPT ![p] = Idle]
    /\ UNCHANGED <<started, collExists, validator, uniqueIndex, employees,
                   nextOid, created>>

\* delete_employee
DeleteEmployee(e) ==
    /\ started
    /\ LET after == DeleteOne(employees, e)
           deleted_count == Len(employees) - Len(after)
       IN /\ employees' = after
          /\ created' = IF deleted_count = 0 THEN created
                        ELSE [created EXCEPT ![e] = None]
          /\ last' = Step("delete", "request", e, EmptyBody, NoQuery,
                          IF deleted_count = 0
                          THEN HTTPException(404, "Employee not found")
                          ELSE Response(200, Some("Employee deleted successfully"),
                                        NoBody))
    /\ UNCHANGED <<started, collExists, validator, uniqueIndex, nextOid, pc>>

\* get_employee
GetEmployee(e) ==
    /\ started
    /\ LET doc == FindByEmployeeId(employees, e)
       IN last' = Step("get", "request", e, EmptyBody, NoQuery,
                       IF doc = None
                       THEN HTTPException(404, "Employee not found")
                       ELSE Response(200, None, clean_doc(doc[1])))
    /\ UNCHANGED <<started, collExists, validator, uniqueIndex, employees,
                   nextOid, pc, created>>

\* Query(1, ge=1) and Query(10, ge=1, le=100): a request outside these
\* ranges never reaches the handler.
PageSizeLimit == 100

QueryOk(page, page_size) ==
    page >= 1 /\ page_size >= 1 /\ page_size <= PageSizeLimit

\* The code unit of a character (the ones dates are made of).
CharCode(c) ==
    CASE c = "-" -> 45
      [] c = "0" -> 48 [] c = "1" -> 49 [] c = "2" -> 50 [] c = "3" -> 51
      [] c = "4" -> 52 [] c = "5" -> 53 [] c = "6" -> 54 [] c = "7" -> 55
      [] c = "8" -> 56 [] c = "9" -> 57

\* String order of the store (binary collation): a < b.
RECURSIVE StrLess(_, _)
StrLess(a, b) ==
    IF b = <<>> THEN FALSE
    ELSE IF a = <<>> THEN TRUE
    ELSE IF Head(a) = Head(b) THEN StrLess(Tail(a), Tail(b))
    ELSE CharCode(Head(a)) < CharCode(Head(b))

\* Python truthiness of Optional[str]: None and "" are falsy.
Truthy(department) == department # None /\ department[1] # ""

\* query = {}; if department: query["department"] = department
ListQuery(department) ==
    IF Truthy(department) THEN [department |-> department[1]]
    ELSE [k \in {} |-> ""]

\* find(query): the documents equal to the query on each of its keys.
Find(coll, query) ==
    LET M(d) == \A k \in DOMAIN query : k \in DOMAIN d /\ d[k] = query[k]
    IN SelectSeq(coll, M)

\* .sort("joining_date", -1): every order of the documents that is
\* descending in joining_date; the store does not fix the order of ties.
SortDescending(docs) ==
    LET n == Len(docs)
        perms == {f \in [1..n -> 1..n] : \A i, j \in 1..n : i # j => f[i] # f[j]}
    IN { [i \in 1..n |-> docs[f[i]]] : f \in
           {g \in perms : \A i \in 1..(n - 1) :
               ~StrLess(docs[g[i]].joining_date, docs[g[i + 1]].joining_date)} }

\* .skip(n).limit(m)
SkipLimit(docs, n, m) ==
    SubSeq(docs, n + 1, IF n + m < Len(docs) THEN n + m ELSE Len(docs))

\* list_employees: the result lists the cursor may yield.
ListResults(coll, department, page, page_size) ==
    LET found == Find(coll, ListQuery(department))
        Results(sorted) ==
            LET docs == SkipLimit(sorted, (page - 1) * page_size, page_size)
            IN [i \in 1..Len(docs) |-> clean_doc(docs[i])]
    IN { Results(sorted) : sorted \in SortDescending(found) }

ListEmployees(department, page, page_size) ==
    /\ started
    /\ QueryOk(page, page_size)
    /\ \E results \in ListResults(employees, department, page, page_size) :
          last' = Step("list", "request", "", EmptyBody,
                       [department |-> department, page |-> page,
                        page_size |-> page_size],
                       Response(200, None, results))
    /\ UNCHANGED <<started, collExists, validator, uniqueIndex, employees,
                   nextOid, pc, created>>

RECURSIVE GCD(_, _)
GCD(a, b) == IF b = 0 THEN a ELSE GCD(b, a % b)

\* The quotient n / d (d > 0) as a number: the fraction in lowest terms.
Quotient(n, d) ==
    LET g == GCD(IF n < 0 THEN 0 - n ELSE n, d)
    IN [num |-> n \div g, den |-> d \div g]

\* {"$group": {"_id": "$department", "avg_salary": {"$avg": "$salary"}}}:
\* one accumulator per distinct department, in the order first met.
RECURSIVE GroupStage(_, _)
GroupStage(coll, groups) ==
    IF coll = <<>> THEN groups
    ELSE LET d == Head(coll)
             i == FirstIndex(groups, "_id", d.department)
         IN GroupStage(Tail(coll),
               IF i = 0
               THEN Append(groups, [_id |-> d.department, sum |-> d.salary, n |-> 1])
               ELSE [groups EXCEPT ![i] = [_id |-> @._id, sum |-> @.sum + d.salary,
                                           n |-> @.n + 1]])

\* The pipeline with $sum where $avg belongs.
ProjectStageSum(groups) ==
    [i \in 1..Len(groups) |->
        [department |-> groups[i]._id, avg_salary |-> Quotient(groups[i].sum, 1)]]

\* {"$project": {"department": "$_id", "avg_salary": "$avg_salary", "_id": 0}}
ProjectStage(groups) ==
    [i \in 1..Len(groups) |->
        [department |-> groups[i]._id,
         avg_salary |-> Quotient(groups[i].sum, groups[i].n)]]

\* avg_salary_by_department
AvgSalaryByDepartment ==
    /\ started
    /\ last' = Step("avg", "request", "", EmptyBody, NoQuery,
                    Response(200, None, ProjectStage(GroupStage(employees, <<>>))))
    /\ UNCHANGED <<started, collExists, validator, uniqueIndex, employees,
                   nextOid, pc, created>>

Next ==
    \/ Startup
    \/ \E p \in Procs, body \in CreateBodies : CreateEmployee(p, body)
    \/ \E p \in Procs : CreateFetch(p)
    \/ \E p \in Procs, e \in EmployeeIds, body \in UpdateBodies :
          UpdateEmployee(p, e, body)
    \/ \E p \in Procs : UpdateFetch(p)
    \/ \E e \in EmployeeIds : DeleteEmployee(e)
    \/ \E e \in EmployeeIds : GetEmployee(e)
    \/ \E department \in DepartmentParams, paging \in Pagings :
          ListEmployees(department, paging[1], paging[2])
    \/ AvgSalaryByDepartment

Spec == Init /\ [][Next]_vars

----------------------------------------------------------------------------
(* Vocabulary of the properties *)

Stored(coll, e) == \E i \in 1..Len(coll) : coll[i].employee_id = e

CountOf(coll, e) == Cardinality({i \in 1..Len(coll) : coll[i].employee_id = e})

\* The body carries field k with a value (not null).
Supplied(body, k) == k \in DOMAIN body /\ body[k] # None

\* The step into the next state began with a request for operation op.
Requested(op) == last'.op = op /\ last'.step = "request"

\* A record as section 3 of the specification wants it: all six fields,
\* salary >= 0, joining_date of the shape DDDD-DD-DD.
WellFormed(d) ==
    /\ {"employee_id", "name", "department", "salary", "joining_date", "skills"}
          \subseteq DOMAIN d
    /\ ~(d.salary < 0)
    /\ Len(d.joining_date) = 10
    /\ \A i \in 1..10 :
          IF i \in {5, 8} THEN d.joining_date[i] = "-"
          ELSE d.joining_date[i] \in DigitChars

\* The values a create body asks to store, skills empty when omitted.
Asked(body, k) ==
    IF k = "skills" /\ ~Supplied(body, k) THEN NoSkills ELSE body[k][1]

CreateFields == RequiredOnCreate \cup {"skills"}

CompleteCreate(body) == \A k \in RequiredOnCreate : Supplied(body, k)

AskedRecord(body) == [k \in CreateFields |-> Asked(body, k)]

----------------------------------------------------------------------------
(* C1 *)

\* C1 (as claimed): an update of a stored employee_id that supplies a
\* non-empty set S of mutable fields, with values the schema admits, leaves
\* the record with the supplied values in S and with every field outside S
\* (skills included, when skills is not supplied) as it was before.
C1_PartialUpdate ==
    [][ ( /\ Requested("update")
          /\ Stored(employees, last'.employee_id)
          /\ \E k \in MutableFields : Supplied(last'.body, k)
          /\ (Supplied(last'.body, "salary") => last'.body.salary[1] >= 0)
          /\ (Supplied(last'.body, "joining_date") =>
                 MatchesDatePattern(last'.body.joining_date[1])) )
        => /\ Len(employees') = Len(employees)
           /\ \A i \in 1..Len(employees) :
                 employees[i].employee_id = last'.employee_id =>
                    \A k \in MutableFields :
                       employees'[i][k] =
                          IF Supplied(last'.body, k) THEN last'.body[k][1]
                          ELSE employees[i][k] ]_vars

----------------------------------------------------------------------------
(* C2 *)

\* C2 (as claimed): an update whose body supplies no field at all is answered
\* 400 for every employee_id, stored or not, and leaves the collection as it
\* was.
C2_EmptyUpdateRejected ==
    [][ (Requested("update") /\ DOMAIN last'.body = {})
        => (last'.resp.status = 400 /\ employees' = employees) ]_vars

----------------------------------------------------------------------------
(* C3 *)

Unique(coll) ==
    \A i, j \in 1..Len(coll) : coll[i].employee_id = coll[j].employee_id => i = j

CreateOfStored ==
    /\ Requested("create")
    /\ CompleteCreate(last'.body)
    /\ Stored(employees, last'.employee_id)

\* C3 (as claimed): no two stored records ever share an employee_id, and a
\* create whose employee_id is already stored is answered 400 and leaves
\* exactly one record with that employee_id.
C3_UniqueAndConflict ==
    [][ /\ Unique(employees')
        /\ CreateOfStored =>
              /\ last'.resp.status = 400
              /\ CountOf(employees', last'.employee_id) = 1 ]_vars

\* C3 (amended): no two stored records ever share an employee_id; a create
\* whose employee_id is already stored is never written and leaves exactly
\* one record with that employee_id; it is answered 400 "employee_id must be
\* unique" when its document satisfies the schema of the collection's
\* validator, and with the unhandled server error 500 when it does not.
C3_UniqueAndRejected ==
    [][ /\ Unique(employees')
        /\ CreateOfStored =>
              /\ employees' = employees
              /\ CountOf(employees', last'.employee_id) = 1
              /\ IF validator' /\ ~WellFormed(AskedRecord(last'.body))
                 THEN last'.resp = Unhandled
                 ELSE last'.resp =
                         HTTPException(400, "employee_id must be unique") ]_vars

\* Two creates of one employee_id overlap: the first has inserted and not yet
\* re-fetched when the second is answered 400.
C3_Witness ==
    /\ last.op = "create"
    /\ last.step = "request"
    /\ last.resp.status = 400
    /\ \E p \in Procs : pc[p].at = "create_fetch" /\ pc[p].eid = last.employee_id
    /\ CountOf(employees, last.employee_id) = 1

----------------------------------------------------------------------------
(* C4 *)

\* C4: a get of an employee_id that a valid create stored, with no update or
\* delete of it since, returns 200 and a record whose employee_id, name,
\* department, salary, joining_date and skills are the values given to the
\* create, skills being the empty sequence when the create omitted it.
C4_CreateGetRoundTrip ==
    (last.op = "get" /\ created[last.employee_id] # None)
    => /\ last.resp.status = 200
       /\ \A k \in CreateFields :
             last.resp.body[k] = Asked(created[last.employee_id][1], k)

\* A get after a completed create that omitted skills.
C4_Witness ==
    /\ last.op = "get"
    /\ created[last.employee_id] # None
    /\ ~Supplied(created[last.employee_id][1], "skills")
    /\ last.resp.body.skills = NoSkills
    /\ \A p \in Procs : pc[p] = Idle
    /\ Len(employees) = 2

----------------------------------------------------------------------------
(* C5 *)

\* C5: a get, a delete, or an update supplying at least one field value,
\* addressed to an employee_id that is not stored, is answered 404 "Employee
\* not found", and the collection after it is the collection before it.
C5_NotFoundUnchanged ==
    [][ ( /\ last'.step = "request"
          /\ last'.op \in {"get", "update", "delete"}
          /\ ~Stored(employees, last'.employee_id)
          /\ (last'.op = "update" =>
                 \E k \in MutableFields : Supplied(last'.body, k)) )
        => /\ last'.resp = HTTPException(404, "Employee not found")
           /\ employees' = employees ]_vars

\* An update with a field value for an absent employee_id, answered 404,
\* while another employee is stored.
C5_Witness ==
    /\ last.op = "update"
    /\ last.step = "request"
    /\ Supplied(last.body, "name")
    /\ last.resp.status = 404
    /\ ~Stored(employees, last.employee_id)
    /\ Len(employees) > 0

----------------------------------------------------------------------------
(* C6 *)

\* The positions of the records a list with this department filter is to
\* return: all of them without a filter, else those of that department.
Wanted(coll, department) ==
    {i \in 1..Len(coll) : department = None \/ coll[i].department = department[1]}

\* seq lists each position of set S once, joining_date never increasing.
DescendingListing(coll, S, seq) ==
    /\ Len(seq) = Cardinality(S)
    /\ \A i \in S : \E k \in 1..Len(seq) : seq[k] = i
    /\ \A k \in 1..Len(seq) : seq[k] \in S
    /\ \A k \in 1..(Len(seq) - 1) :
          ~StrLess(coll[seq[k]].joining_date, coll[seq[k + 1]].joining_date)

\* C6 (as claimed): for every page >= 1, page_size in 1..100 and optional
\* department filter, list is answered 200 with the records of that
\* department (all records without a filter) in an order descending in
\* joining_date, cut to its positions (page-1)*page_size+1 .. page*page_size;
\* a page beyond the end is the empty sequence.
C6_ListPagination ==
    last.op = "list" =>
        LET q == last.query
            S == Wanted(employees, q.department)
            from == (q.page - 1) * q.page_size
            n == IF Cardinality(S) - from < 0 THEN 0
                 ELSE IF Cardinality(S) - from < q.page_size
                      THEN Cardinality(S) - from
                      ELSE q.page_size
        IN /\ last.resp.status = 200
           /\ \E seq \in [1..Cardinality(S) -> 1..Len(employees)] :
                 /\ DescendingListing(employees, S, seq)
                 /\ last.resp.body =
                       [k \in 1..n |-> clean_doc(employees[seq[from + k]])]

----------------------------------------------------------------------------
(* C7 *)

DepartmentsOf(coll) == {coll[i].department : i \in 1..Len(coll)}

RECURSIVE SalarySum(_, _)
SalarySum(coll, S) ==
    IF S = {} THEN 0
    ELSE LET i == CHOOSE x \in S : TRUE
         IN coll[i].salary + SalarySum(coll, S \ {i})

\* C7: the aggregate is answered 200 with exactly one {department,
\* avg_salary} pair for each department that some stored record has, none for
\* any other department, and each avg_salary is the sum of the salaries of
\* that department's records divided by their number.
C7_AverageSalary ==
    last.op = "avg" =>
        LET r == last.resp.body
        IN /\ last.resp.status = 200
           /\ \A d \in DepartmentsOf(employees) :
                 Cardinality({k \in 1..Len(r) : r[k].department = d}) = 1
           /\ \A k \in 1..Len(r) :
                 LET S == {i \in 1..Len(employees) :
                              employees[i].department = r[k].department}
                 IN /\ S # {}
                    /\ DOMAIN r[k] = {"department", "avg_salary"}
                    /\ r[k].avg_salary.den > 0
                    /\ r[k].avg_salary.num * Cardinality(S) =
                          SalarySum(employees, S) * r[k].avg_salary.den

\* The aggregate over two records of one department with different salaries.
C7_Witness ==
    /\ last.op = "avg"
    /\ Len(employees) = 2
    /\ employees[1].department = employees[2].department
    /\ employees[1].salary # employees[2].salary
    /\ Len(last.resp.body) = 1
    /\ last.resp.body[1].avg_salary = [num |-> 150, den |-> 1]

----------------------------------------------------------------------------
(* C8 *)

\* A field value of the body that section 3 does not admit.
AsksIllFormed(body) ==
    \/ Supplied(body, "salary") /\ body.salary[1] < 0
    \/ Supplied(body, "joining_date") /\
          ~WellFormed([employee_id |-> "", name |-> "", department |-> "",
                       salary |-> 0, joining_date |-> body.joining_date[1],
                       skills |-> NoSkills])

\* C8: once the collection carries its validator, every stored record has
\* employee_id, name, department, salary, joining_date and skills, a salary
\* >= 0 and a joining_date of the shape DDDD-DD-DD; a create or an update of
\* a stored record that asks for a value outside this is not applied.
C8_SchemaInvariant ==
    [][ validator' =>
          /\ \A i \in 1..Len(employees') : WellFormed(employees'[i])
          /\ ( /\ last'.step = "request"
               /\ last'.op \in {"create", "update"}
               /\ AsksIllFormed(last'.body) )
             => /\ employees' = employees
                /\ last'.resp.status >= 400 ]_vars

\* An update of a stored record that asks for a negative salary, refused.
C8_Witness ==
    /\ validator
    /\ last.op = "update"
    /\ last.step = "request"
    /\ Supplied(last.body, "salary")
    /\ Stored(employees, last.employee_id)
    /\ last.resp = Unhandled

----------------------------------------------------------------------------
(* C9 *)

\* C9: a record keeps its storage id and its employee_id from its creation
\* to its deletion: a step never changes the employee_id stored under a
\* storage id, an update leaves every record's storage id and employee_id in
\* place, whatever its body carries, and the id a response exposes is the
\* text of the storage id.
C9_IdentifiersImmutable ==
    [][ /\ \A i \in 1..Len(employees), j \in 1..Len(employees') :
              employees'[j]._id = employees[i]._id =>
                 employees'[j].employee_id = employees[i].employee_id
        /\ Requested("update") =>
              /\ Len(employees') = Len(employees)
              /\ \A i \in 1..Len(employees) :
                    /\ employees'[i]._id = employees[i]._id
                    /\ employees'[i].employee_id = employees[i].employee_id
        /\ (last'.op \in {"get", "update"} /\ last'.resp.status = 200
              /\ last'.resp.detail = None) =>
              \E i \in 1..Len(employees') :
                 /\ employees'[i].employee_id = last'.resp.body.employee_id
                 /\ last'.resp.body.id = Str(employees'[i]._id) ]_vars

\* An applied update whose body carried an employee_id other than the
\* record's and an id.
C9_Witness ==
    /\ last.op = "update"
    /\ last.step = "request"
    /\ last.resp = NoResponse
    /\ Supplied(last.body, "employee_id")
    /\ last.body.employee_id[1] # last.employee_id
    /\ Supplied(last.body, "id")
    /\ ~Stored(employees, last.body.employee_id[1])
    /\ Stored(employees, last.employee_id)

----------------------------------------------------------------------------
(* C10 *)

\* C10 (as claimed): the re-fetch of a create or update handler always ends
\* the handler with the mapped record or with a 404 response that carries a
\* detail string, also when a delete has removed the record since the write.
C10_RefetchHandled ==
    last.step = "fetch" =>
        \/ last.resp.status \in {200, 201}
        \/ last.resp.status = 404 /\ last.resp.detail # None

====
